---------------------------- MODULE Spec2Model ----------------------------
(***************************************************************************)
(* A model of fedit's command-line editors.                                *)
(*                                                                         *)
(*   bin/fedit.py                  the plain-text edit command             *)
(*   bin/fedit_structured_json.py  the structured JSON edit command        *)
(*   bin/fedit_structured_yaml_toml.py  the line-oriented YAML/TOML editor *)
(*                                                                         *)
(* Python strings and byte strings are sequences of characters; a          *)
(* character is a one-character TLA+ string, except the control            *)
(* characters, which carry their names (CR, LF, TAB, BSL for the           *)
(* backslash, XFF for the byte 0xFF, which no UTF-8 text contains).        *)
(* Offsets are Python's: 0-based, a span (s, e) covers text[s:e].          *)
(***************************************************************************)
EXTENDS Integers, Sequences, FiniteSets, TLC

----------------------------------------------------------------------------
(* Bounds of the model.                                                    *)

MaxTextLen == 4

MaxSearchLen == 2

MaxUnits == 3

MaxPathSteps == 3

\* the lines of a YAML or TOML file
MaxYamlLines == 2

\* the lines of the text of a JSON document
MaxIndentLines == 3

\* The scan loop of the exact mode does not end on the empty search string;
\* the model stops it after this many spans (more than any text yields).
MaxMatches == MaxTextLen + MaxUnits + 3

----------------------------------------------------------------------------
(* Characters.                                                             *)

CR == "CR"

LF == "LF"

TAB == "TAB"

BSL == "BSL"

XFF == "XFF"

\* Optional[str]: None is a value no string equals.
NoneStr == <<"None">>

\* str.isspace() and the regular expression class \s on the model's characters
isspace(ch) == ch \in {" ", TAB, CR, LF}

\* A string literal of the source as a sequence of characters.
STR_crlf == <<"c", "r", "l", "f">>

STR_lf == <<"l", "f">>

----------------------------------------------------------------------------
(* Sequences as Python strings.                                            *)

SeqsUpTo(A, n) == UNION {[1..k -> A] : k \in 0..n}

Min(S) == CHOOSE x \in S : \A y \in S : x <= y

\* text[a:b] for 0 <= a, b
Slice(t, a, b) == SubSeq(t, a + 1, IF b > Len(t) THEN Len(t) ELSE b)

\* text[a:]
SliceFrom(t, a) == SubSeq(t, a + 1, Len(t))

\* str.find(sub, start): the lowest index >= start where sub occurs, or -1
Find(t, sub, start) ==
  LET cands == {i \in start..(Len(t) - Len(sub)) : Slice(t, i, i + Len(sub)) = sub}
  IN  IF cands = {} THEN -1 ELSE Min(cands)

\* str.count(sub) for a non-empty sub: non-overlapping occurrences, left to right
RECURSIVE CountFrom(_, _, _)
CountFrom(t, sub, start) ==
  LET idx == Find(t, sub, start)
  IN  IF idx = -1 THEN 0 ELSE 1 + CountFrom(t, sub, idx + Len(sub))

StrCount(t, sub) == CountFrom(t, sub, 0)

\* A plausible slip in str.replace: only the first occurrence is replaced.
ReplaceFirstOnly(t, old, new) ==
  LET idx == Find(t, old, 0)
  IN  IF idx = -1 \/ old = <<>> THEN t
      ELSE Slice(t, 0, idx) \o new \o SliceFrom(t, idx + Len(old))

\* str.replace(old, new): every non-overlapping occurrence, left to right; the
\* replacement is not scanned again.  An empty old is found before every
\* character and at the end.
RECURSIVE ReplaceFrom(_, _, _, _)
ReplaceFrom(t, old, new, start) ==
  IF old = <<>>
    THEN IF start >= Len(t) THEN new
         ELSE new \o <<t[start + 1]>> \o ReplaceFrom(t, old, new, start + 1)
    ELSE LET idx == Find(t, old, start)
         IN  IF idx = -1 THEN SliceFrom(t, start)
             ELSE Slice(t, start, idx) \o new
                    \o ReplaceFrom(t, old, new, idx + Len(old))

StrReplace(t, old, new) == ReplaceFrom(t, old, new, 0)

----------------------------------------------------------------------------
(* fedit.py: line endings.                                                 *)

\* raw_bytes.count(b"\r\n"), raw_bytes.count(b"\n") - crlf
_detect_line_endings(raw_bytes) ==
  LET crlf    == StrCount(raw_bytes, <<CR, LF>>)
      lf_only == StrCount(raw_bytes, <<LF>>) - crlf
  IN  IF crlf = 0 /\ lf_only = 0 THEN NoneStr
      ELSE IF crlf >= lf_only THEN STR_crlf
      ELSE STR_lf

_detect_target_ending(variant) ==
  IF variant = STR_crlf THEN <<CR, LF>>
  ELSE IF variant = STR_lf THEN <<LF>>
  ELSE NoneStr

\* lines 177-182: the replacement with its escaped newline markers translated
TranslateReplacement(rep, line_ending) ==
  LET rep_for_norm == StrReplace(rep, <<BSL, "n">>, <<LF>>)
  IN  IF line_ending = STR_crlf
        THEN StrReplace(rep_for_norm, <<LF>>, <<CR, LF>>)
        ELSE rep_for_norm

\* raw.decode(enc) for enc = utf-8: the byte 0xFF is no UTF-8; the other bytes of
\* the model are ASCII, and each decodes to the character of its code.
Decodable(raw) == \A i \in 1..Len(raw) : raw[i] # XFF

Decode(raw) == [i \in 1..Len(raw) |-> raw[i]]

----------------------------------------------------------------------------
(* fedit.py: patterns.  A compiled pattern is a sequence of elements, each *)
(* a literal character [lit |-> ch] or the class repetition \s+.           *)

WsPlus == [ws |-> TRUE]

Lit(ch) == [lit |-> ch]

IsLit(el) == "lit" \in DOMAIN el

\* re.escape(search): every character matched literally
ReEscape(search) == [i \in 1..Len(search) |-> Lit(search[i])]

\* the end of the whitespace run that starts at offset i of search
RECURSIVE RunEnd(_, _)
RunEnd(s, j) == IF j < Len(s) /\ isspace(s[j + 1]) THEN RunEnd(s, j + 1) ELSE j

RECURSIVE BuildFrom(_, _)
BuildFrom(search, i) ==
  IF i >= Len(search) THEN <<>>
  ELSE IF isspace(search[i + 1])
         THEN <<WsPlus>> \o BuildFrom(search, RunEnd(search, i))
         ELSE <<Lit(search[i + 1])>> \o BuildFrom(search, i + 1)

_build_ws_pattern(search) == BuildFrom(search, 0)

\* The match of pat[k..] at offset pos of t: its end, or -1.  \s+ is greedy and
\* gives back one character at a time when the rest of the pattern fails.
RECURSIVE RxMatch(_, _, _, _)
RECURSIVE RxTry(_, _, _, _, _)
RxMatch(pat, k, t, pos) ==
  IF k > Len(pat) THEN pos
  ELSE IF IsLit(pat[k])
         THEN IF pos < Len(t) /\ t[pos + 1] = pat[k].lit
                THEN RxMatch(pat, k + 1, t, pos + 1)
                ELSE -1
         ELSE RxTry(pat, k, t, pos, RunEnd(t, pos) - pos)

RxTry(pat, k, t, pos, n) ==
  IF n < 1 THEN -1
  ELSE LET r == RxMatch(pat, k + 1, t, pos + n)
       IN  IF r # -1 THEN r ELSE RxTry(pat, k, t, pos, n - 1)

\* re.finditer: the spans of the non-overlapping matches, left to right.  After
\* an empty match at pos the scan goes on at pos + 1 (the patterns built here
\* match the empty string only when they are empty).
RECURSIVE FindIter(_, _, _)
FindIter(pat, t, pos) ==
  IF pos > Len(t) THEN <<>>
  ELSE LET e == RxMatch(pat, 1, t, pos)
       IN  IF e = -1 THEN FindIter(pat, t, pos + 1)
           ELSE <<<<pos, e>>>> \o FindIter(pat, t, IF e = pos THEN pos + 1 ELSE e)

\* lines 184-192: one pass over the spans
RECURSIVE RebuildFrom(_, _, _, _, _)
RebuildFrom(t, spans, rep, k, prev) ==
  IF k > Len(spans) THEN SliceFrom(t, prev)
  ELSE Slice(t, prev, spans[k][1]) \o rep
         \o RebuildFrom(t, spans, rep, k + 1, spans[k][2])

\* lines 184-198: the new content
FinalText(t, search, spans, rep_translated, ignore_ws) ==
  IF ignore_ws
    THEN RebuildFrom(t, spans, rep_translated, 1, 0)
    ELSE IF Len(spans) = 1
           THEN Slice(t, 0, spans[1][1]) \o rep_translated
                  \o SliceFrom(t, spans[1][2])
           ELSE StrReplace(t, search, rep_translated)

----------------------------------------------------------------------------
(* fedit.py: one invocation of main() on the target file.                  *)

VARIABLES
  args,          \* the parsed command line
  present,       \* whether the target file exists
  disk,          \* the bytes of the target file
  orig,          \* the bytes of the target file before the invocation
  pc,            \* where main() stands
  raw,           \* line 121
  line_ending,   \* line 130
  text,          \* line 133
  matches,       \* line 145: the spans found, as <<start, end>>
  start,         \* line 157: the cursor of the exact scan
  final_text,    \* lines 184-198
  tmp_exists,    \* whether the temporary file is in the target directory
  tmp_content,   \* the bytes of the temporary file
  tmp_created,   \* whether mkstemp was ever called with success
  rc,            \* the exit code, -1 while running
  err,           \* the kind of the diagnostic on stderr, "" if none
  reported,      \* the count printed, -1 if none
  data,          \* fedit_structured_json.py line 153: the parsed document
  steps,         \* fedit_structured_json.py line 162: the parsed key path
  new_text,      \* fedit_structured_json.py lines 181-187: the new document
  lines,         \* fedit_structured_yaml_toml.py line 133: the lines of the file
  observed,      \* what a concurrent reader of the target read last
  original_text, \* fedit_structured_json.py line 152
  json_indent    \* fedit_structured_json.py line 179: indent, -1 before it

vars == <<args, present, disk, orig, pc, raw, line_ending, text, matches, start,
          final_text, tmp_exists, tmp_content, tmp_created, rc, err, reported,
          data, steps, new_text, lines, observed, original_text, json_indent>>

io == <<present, disk, tmp_exists, tmp_content, tmp_created>>

\* the local variables of fedit.py's main()
locals == <<raw, line_ending, text, matches, start, final_text>>

\* the local variables of fedit_structured_json.py's main()
json_locals == <<data, steps, new_text>>

\* what fedit.py's main() never touches
not_plain == <<json_locals, lines, observed, original_text, json_indent>>

\* what fedit_structured_json.py's main() never touches
not_json == <<locals, lines, observed, original_text, json_indent>>

\* the temporary file, which fedit_structured_yaml_toml.py does not use
temp == <<tmp_exists, tmp_content, tmp_created>>

\* what fedit_structured_yaml_toml.py's main() never touches
not_yaml == <<locals, json_locals, temp, observed, original_text, json_indent>>

----------------------------------------------------------------------------
(* The inputs of an invocation.                                            *)

\* texts and search strings of letters and blanks
MatchTexts == SeqsUpTo({"a", " "}, MaxTextLen)

SearchStrings == SeqsUpTo({"a", " "}, MaxSearchLen)

MatchReplacements == {<<>>, <<"b">>, <<"a", "a">>}

\* files of up to MaxUnits units, each a letter or a line terminator
RECURSIVE Concat(_)
Concat(ss) == IF ss = <<>> THEN <<>> ELSE Head(ss) \o Concat(Tail(ss))

LineUnits == {<<"a">>, <<CR, LF>>, <<LF>>}

LineTexts == {Concat(us) : us \in SeqsUpTo(LineUnits, MaxUnits)}

\* replacements with escaped newline markers (backslash, n) and a real newline
LineReplacements ==
  {<<BSL, "n">>, <<"b", BSL, "n", "b">>, <<BSL, "n", BSL, "n">>, <<LF>>}

\* files that are no UTF-8
BadTexts == {<<XFF>>, <<"a", XFF>>}

Args(s, r, m, n, w, st) ==
  [search |-> s, replace |-> r, multiple |-> m, dry_run |-> n, ignore_ws |-> w,
   structured |-> st]

InitFile(content, exists) ==
  /\ present = exists
  /\ disk = content
  /\ orig = content
  /\ pc = "read"
  /\ raw = <<>>
  /\ line_ending = NoneStr
  /\ text = <<>>
  /\ matches = <<>>
  /\ start = 0
  /\ final_text = <<>>
  /\ tmp_exists = FALSE
  /\ tmp_content = <<>>
  /\ tmp_created = FALSE
  /\ rc = -1
  /\ err = ""
  /\ reported = -1

\* the variables of the other commands, which take no part in this one
JsonIdle ==
  /\ data = <<>>
  /\ steps = <<>>
  /\ new_text = <<>>

YamlIdle == lines = <<>>

\* the layout of the JSON text, which is followed in SpecIndent alone
IndentIdle == original_text = <<>> /\ json_indent = -1

\* a reader that read the target before the invocation
ReaderInit == observed = orig

PlainInputs ==
  \/ /\ \E s \in SearchStrings, r \in MatchReplacements, m, n, w, st \in BOOLEAN :
          args = Args(s, r, m, n, w, st)
     /\ \E t \in MatchTexts : InitFile(t, TRUE)
  \/ /\ \E s \in {<<"a">>, <<LF>>}, r \in LineReplacements, m, n, w \in BOOLEAN :
          args = Args(s, r, m, n, w, FALSE)
     /\ \E t \in LineTexts : InitFile(t, TRUE)
  \/ /\ \E m, n, w, st \in BOOLEAN : args = Args(<<"a">>, <<"b">>, m, n, w, st)
     /\ \/ \E t \in BadTexts : InitFile(t, TRUE)
        \/ InitFile(<<>>, FALSE)

Init == PlainInputs /\ JsonIdle /\ YamlIdle /\ IndentIdle /\ ReaderInit

\* return <code> with a diagnostic and a count
Return(code, kind, n) ==
  /\ pc' = "done"
  /\ rc' = code
  /\ err' = kind
  /\ reported' = n

\* lines 119-127
Read ==
  /\ pc = "read"
  /\ \/ /\ ~present
        /\ Return(2, "NoSuchFile", -1)
        /\ UNCHANGED raw
     \/ /\ present
        /\ Return(2, "ReadError", -1)
        /\ UNCHANGED raw
     \/ /\ present
        /\ raw' = disk
        /\ pc' = "decode"
        /\ UNCHANGED <<rc, err, reported>>
  /\ UNCHANGED <<args, orig, not_plain, io, line_ending, text, matches, start, final_text>>

\* lines 129-142
DecodeText ==
  /\ pc = "decode"
  /\ line_ending' = _detect_target_ending(_detect_line_endings(raw))
  /\ \/ /\ ~Decodable(raw)
        /\ Return(4, "EncodingError", -1)
        /\ UNCHANGED text
     \/ /\ Decodable(raw)
        /\ text' = Decode(raw)
        /\ pc' = "match"
        /\ UNCHANGED <<rc, err, reported>>
  /\ UNCHANGED <<args, orig, not_plain, io, raw, matches, start, final_text>>

\* lines 147-157: the spans of the structured and the whitespace-insensitive
\* mode; the exact mode enters its scan loop
Locate ==
  /\ pc = "match"
  /\ \/ /\ args.structured
        /\ matches' = IF args.search # <<>>
                        THEN FindIter(ReEscape(args.search), text, 0)
                        ELSE <<>>
        /\ pc' = "policy"
     \/ /\ ~args.structured
        /\ args.ignore_ws
        /\ matches' = FindIter(_build_ws_pattern(args.search), text, 0)
        /\ pc' = "policy"
     \/ /\ ~args.structured
        /\ ~args.ignore_ws
        /\ matches' = <<>>
        /\ pc' = "scan"
  /\ start' = 0
  /\ UNCHANGED <<args, orig, not_plain, io, raw, line_ending, text, final_text, rc, err,
                 reported>>

\* A scan that steps one character past the start of a span, so that spans
\* may overlap.
NextStartOverlapping(idx, search) == idx + 1

\* line 163: the cursor moves to the end of the span found
NextStart(idx, search) == idx + Len(search)

\* lines 158-163: one iteration of the exact scan
ScanStep ==
  /\ pc = "scan"
  /\ Len(matches) < MaxMatches
  /\ LET idx == Find(text, args.search, start)
     IN  \/ /\ idx = -1
            /\ pc' = "policy"
            /\ UNCHANGED <<matches, start>>
         \/ /\ idx # -1
            /\ matches' = Append(matches, <<idx, idx + Len(args.search)>>)
            /\ start' = NextStart(idx, args.search)
            /\ pc' = "scan"
  /\ UNCHANGED <<args, orig, not_plain, io, raw, line_ending, text, final_text, rc, err,
                 reported>>

\* A policy without the check for no match.
MatchPolicyNoZero(count, multiple) ==
  IF count > 1 /\ ~multiple THEN "AmbiguousMatch" ELSE "Apply"

\* lines 165-175: one match, or one or more with --multiple
MatchPolicy(count, multiple) ==
  IF count = 0 THEN "NoMatch"
  ELSE IF count > 1 /\ ~multiple THEN "AmbiguousMatch"
  ELSE "Apply"

\* A dry run that goes on to write.
DryRunIgnored(do_dry_run) == FALSE

\* lines 200-202: a dry run returns before the write phase
DryRunStops(do_dry_run) == do_dry_run

\* lines 165-202: the match policy, the new content, the dry run
Policy ==
  /\ pc = "policy"
  /\ LET count   == Len(matches)
         outcome == MatchPolicy(count, args.multiple)
     IN  \/ /\ outcome = "NoMatch"
            /\ Return(1, "NoMatch", -1)
            /\ UNCHANGED final_text
         \/ /\ outcome = "AmbiguousMatch"
            /\ Return(1, "AmbiguousMatch", count)
            /\ UNCHANGED final_text
         \/ /\ outcome = "Apply"
            /\ final_text' = FinalText(text, args.search, matches,
                                 TranslateReplacement(args.replace, line_ending),
                                 args.ignore_ws)
            /\ \/ /\ DryRunStops(args.dry_run)
                  /\ Return(0, "", count)
               \/ /\ ~DryRunStops(args.dry_run)
                  /\ pc' = "mkstemp"
                  /\ UNCHANGED <<rc, err, reported>>
  /\ UNCHANGED <<args, orig, not_plain, io, raw, line_ending, text, matches, start>>

\* A cleanup that forgets the temporary file.
KeepTemp(exists) == exists

\* lines 219-223 and 227-231: os.remove(tmp_path) when it exists
RemoveTemp(exists) == FALSE

\* lines 218-231: the handler of a failure of the write phase
WriteFailed ==
  /\ tmp_exists' = RemoveTemp(tmp_exists)
  /\ Return(3, "WriteError", -1)

\* lines 207-209
MkStemp ==
  /\ pc = "mkstemp"
  /\ \/ /\ tmp_exists' = TRUE
        /\ tmp_content' = <<>>
        /\ tmp_created' = TRUE
        /\ pc' = "write"
        /\ UNCHANGED <<rc, err, reported>>
     \/ /\ WriteFailed
        /\ UNCHANGED <<tmp_content, tmp_created>>
  /\ UNCHANGED <<args, orig, not_plain, present, disk, locals>>

\* lines 210-211: the text is encoded into the buffer of the file object
WriteBuffer ==
  /\ pc = "write"
  /\ \/ /\ pc' = "flush"
        /\ UNCHANGED <<tmp_exists, rc, err, reported>>
     \/ WriteFailed
  /\ UNCHANGED <<args, orig, not_plain, present, disk, tmp_content, tmp_created, locals>>

\* line 212: the buffer reaches the temporary file, whole or, on a failure, in
\* part
Flush ==
  /\ pc = "flush"
  /\ \/ /\ tmp_content' = final_text
        /\ pc' = "fsync"
        /\ UNCHANGED <<tmp_exists, rc, err, reported>>
     \/ /\ \E n \in 0..Len(final_text) : tmp_content' = Slice(final_text, 0, n)
        /\ WriteFailed
  /\ UNCHANGED <<args, orig, not_plain, present, disk, tmp_created, locals>>

\* line 213, and the close of the file at the end of the with block
Fsync ==
  /\ pc = "fsync"
  /\ \/ /\ pc' = "replace"
        /\ UNCHANGED <<tmp_exists, rc, err, reported>>
     \/ WriteFailed
  /\ UNCHANGED <<args, orig, not_plain, present, disk, tmp_content, tmp_created, locals>>

\* lines 214-217: the rename over the target, and the report
Replace ==
  /\ pc = "replace"
  /\ \/ /\ disk' = tmp_content
        /\ tmp_exists' = FALSE
        /\ Return(0, "", Len(matches))
     \/ /\ WriteFailed
        /\ UNCHANGED disk
  /\ UNCHANGED <<args, orig, not_plain, present, tmp_content, tmp_created, locals>>

Next ==
  \/ Read
  \/ DecodeText
  \/ Locate
  \/ ScanStep
  \/ Policy
  \/ MkStemp
  \/ WriteBuffer
  \/ Flush
  \/ Fsync
  \/ Replace

Spec == Init /\ [][Next]_vars

----------------------------------------------------------------------------
(* Properties of the plain-text edit command.                              *)

Done == pc = "done"

\* the target was read and decoded
WasDecoded == present /\ Decodable(orig) /\ err # "ReadError"

\* the reconstruction over spans: the text before the last span rebuilt, the
\* replacement, the tail after the last span
RECURSIVE Reconstruction(_, _, _)
Reconstruction(t, spans, rep) ==
  IF spans = <<>> THEN t
  ELSE LET last == spans[Len(spans)]
       IN  Reconstruction(Slice(t, 0, last[1]), SubSeq(spans, 1, Len(spans) - 1), rep)
             \o rep \o SliceFrom(t, last[2])

\* the number of leftmost-first non-overlapping occurrences of s in t
RECURSIVE Occurrences(_, _, _)
Occurrences(t, s, i) ==
  IF i + Len(s) > Len(t) THEN 0
  ELSE IF \A k \in 1..Len(s) : t[i + k] = s[k]
         THEN 1 + Occurrences(t, s, i + Len(s))
         ELSE Occurrences(t, s, i + 1)

\* a string with each run of whitespace collapsed into one mark
RECURSIVE Collapse(_)
Collapse(s) ==
  IF s = <<>> THEN <<>>
  ELSE IF isspace(Head(s))
         THEN IF Len(s) > 1 /\ isspace(s[2]) THEN Collapse(Tail(s))
              ELSE <<"WS">> \o Collapse(Tail(s))
         ELSE <<Head(s)>> \o Collapse(Tail(s))

\* whether s occurs in t in the selected mode
OccursIn(t, s) ==
  IF args.structured \/ ~args.ignore_ws
    THEN s # <<>> /\ \E i \in 0..(Len(t) - Len(s)) : Slice(t, i, i + Len(s)) = s
    ELSE \E i \in 0..Len(t) : \E j \in i..Len(t) :
           Collapse(Slice(t, i, j)) = Collapse(s)

LiteralMode == args.structured \/ ~args.ignore_ws

\* C1: a successful invocation, in every mode, produces the left-to-right
\* reconstruction over the reported spans (the text before each span, the
\* translated replacement, the tail after the last span), writes it unless the
\* run is dry, and reports as many replacements as there are spans.
C1_ReconstructionOverSpans ==
  (Done /\ rc = 0) =>
    /\ final_text =
         Reconstruction(text, matches,
                        TranslateReplacement(args.replace, line_ending))
    /\ reported = Len(matches)
    /\ ~args.dry_run => disk = final_text

C1_Witness ==
  /\ Done /\ rc = 0 /\ ~args.dry_run /\ ~args.ignore_ws
  /\ Len(matches) >= 2
  /\ disk # orig

\* C2 as stated: whenever the text holds the non-empty search string twice or
\* more, an invocation without --multiple fails with exit 1, reports the number
\* of leftmost-first non-overlapping occurrences, and writes nothing.
C2_AmbiguousCountAnyMode ==
  (Done /\ WasDecoded /\ ~args.multiple /\ args.search # <<>>
     /\ Occurrences(text, args.search, 0) >= 2) =>
    /\ rc = 1 /\ err = "AmbiguousMatch"
    /\ reported = Occurrences(text, args.search, 0)
    /\ disk = orig /\ ~tmp_created

\* C2 amended: the statement holds in the exact and the structured mode; in
\* every mode an invocation without --multiple that found two or more spans
\* fails with exit 1, reports the number of spans, and writes nothing.
C2_AmbiguousCount ==
  /\ (Done /\ WasDecoded /\ ~args.multiple /\ args.search # <<>> /\ LiteralMode
        /\ Occurrences(text, args.search, 0) >= 2) =>
       /\ rc = 1 /\ err = "AmbiguousMatch"
       /\ reported = Occurrences(text, args.search, 0)
       /\ disk = orig /\ ~tmp_created
  /\ (Done /\ ~args.multiple /\ Len(matches) >= 2) =>
       /\ rc = 1 /\ err = "AmbiguousMatch"
       /\ reported = Len(matches)
       /\ disk = orig /\ ~tmp_created

C2_Witness ==
  /\ Done /\ ~args.multiple /\ LiteralMode /\ ~args.structured
  /\ text = <<"a", "a", "a", "a">> /\ args.search = <<"a", "a">>
  /\ reported = 2

\* C3: when the search string does not occur in the text in the selected mode,
\* the invocation fails with the no-match error, creates no temporary file and
\* leaves the target as it was.
C3_NoMatchLeavesFile ==
  (Done /\ WasDecoded /\ ~OccursIn(Decode(orig), args.search)) =>
    /\ rc = 1 /\ err = "NoMatch"
    /\ ~tmp_created /\ ~tmp_exists
    /\ present /\ disk = orig

C3_Witness ==
  /\ Done /\ err = "NoMatch" /\ args.ignore_ws /\ ~args.structured
  /\ Len(orig) >= 2 /\ args.search # <<>>

WithMarkersAs(rep, nl) == StrReplace(rep, <<BSL, "n">>, nl)

HasRawNewline(rep) == \E i \in 1..Len(rep) : rep[i] \in {CR, LF}

\* C6: in the written content every escaped newline marker of the replacement
\* is CR LF when the file's dominant line ending is CRLF, and a bare LF when it
\* is LF.
C6_MarkerFollowsLineEnding ==
  (Done /\ rc = 0 /\ ~args.dry_run /\ ~HasRawNewline(args.replace)) =>
    /\ _detect_line_endings(orig) = STR_crlf =>
         disk = Reconstruction(text, matches, WithMarkersAs(args.replace, <<CR, LF>>))
    /\ _detect_line_endings(orig) = STR_lf =>
         disk = Reconstruction(text, matches, WithMarkersAs(args.replace, <<LF>>))

\* C7: a dry run creates no temporary file and leaves the target as it was, at
\* every step; when the match policy is satisfied it exits 0 and reports the
\* number of matches.
C7_DryRunWritesNothing ==
  args.dry_run =>
    /\ ~tmp_created /\ ~tmp_exists /\ disk = orig
    /\ (Done /\ (Len(matches) = 1 \/ (Len(matches) >= 1 /\ args.multiple))) =>
         (rc = 0 /\ err = "" /\ reported = Len(matches))

C7_Witness ==
  /\ args.dry_run /\ Done /\ rc = 0 /\ reported >= 2
  /\ final_text # text

\* C10: every span has end > start, the spans are in ascending order of start,
\* and none starts before the end of the one before.
C10_SpansWellFormed ==
  \A k \in 1..Len(matches) :
    /\ matches[k][2] > matches[k][1]
    /\ k > 1 => /\ matches[k - 1][1] < matches[k][1]
                /\ matches[k - 1][2] <= matches[k][1]


----------------------------------------------------------------------------
(* fedit_structured_json.py: JSON values.  A value is a number, a map from *)
(* keys (strings) to values, or a list of values.                          *)

Num(n) == [t |-> "num", v |-> n]

Map(f) == [t |-> "map", m |-> f]

List(l) == [t |-> "list", l |-> l]

\* isinstance(cur, dict), isinstance(cur, list)
IsDict(x) == x.t = "map"

IsList(x) == x.t = "list"

\* a step of a key path: ("key", name) or ("idx", index)
KeyStep(name) == [kind |-> "key", name |-> name]

IdxStep(n) == [kind |-> "idx", index |-> n]

\* the content of a file: a JSON document, text that is no JSON, an empty
\* file, or a part of a document
JsonFile(tree) == [form |-> "json", tree |-> tree]

NotJsonFile == [form |-> "notjson"]

EmptyFile == [form |-> "empty"]

PartOf(content) == [form |-> "part", of |-> content]

Digits == <<"0", "1", "2", "3", "4", "5", "6", "7", "8", "9">>

IsDigit(c) == \E d \in 1..Len(Digits) : Digits[d] = c

DigitValue(c) == (CHOOSE d \in 1..Len(Digits) : Digits[d] = c) - 1

RECURSIVE Decimal(_)
Decimal(s) ==
  IF s = <<>> THEN 0
  ELSE 10 * Decimal(SubSeq(s, 1, Len(s) - 1)) + DigitValue(s[Len(s)])

RECURSIVE Strip(_)
Strip(s) ==
  IF s # <<>> /\ isspace(Head(s)) THEN Strip(Tail(s))
  ELSE IF s # <<>> /\ isspace(s[Len(s)]) THEN Strip(SubSeq(s, 1, Len(s) - 1))
  ELSE s

\* int(s): blanks around, a sign, decimal digits; anything else is a ValueError
IntOf(s) ==
  LET body   == Strip(s)
      signed == body # <<>> /\ Head(body) \in {"-", "+"}
      digits == IF signed THEN Tail(body) ELSE body
  IN  IF digits = <<>> \/ \E i \in 1..Len(digits) : ~IsDigit(digits[i])
        THEN [ok |-> FALSE, v |-> 0]
        ELSE [ok |-> TRUE,
              v  |-> IF signed /\ Head(body) = "-" THEN 0 - Decimal(digits)
                     ELSE Decimal(digits)]

\* lines 40-42: the end of the key name that starts at offset i
RECURSIVE KeyEnd(_, _)
KeyEnd(path_str, j) ==
  IF j < Len(path_str) /\ path_str[j + 1] \notin {".", "["}
    THEN KeyEnd(path_str, j + 1)
    ELSE j

\* lines 26-45: the steps from offset i on, or the exception raised
RECURSIVE ParseFrom(_, _)
ParseFrom(path_str, i) ==
  IF i >= Len(path_str) THEN [err |-> "", steps |-> <<>>]
  ELSE LET c == path_str[i + 1]
       IN  IF c = "." THEN ParseFrom(path_str, i + 1)
           ELSE IF c = "["
             THEN LET j == Find(path_str, <<"]">>, i)
                      n == IntOf(Slice(path_str, i + 1, j))
                      rest == ParseFrom(path_str, j + 1)
                  IN  IF j = -1 THEN [err |-> "InvalidKeyPath", steps |-> <<>>]
                      ELSE IF ~n.ok THEN [err |-> "ValueError", steps |-> <<>>]
                      ELSE IF rest.err # "" THEN rest
                      ELSE [err |-> "", steps |-> <<IdxStep(n.v)>> \o rest.steps]
             ELSE LET j == KeyEnd(path_str, i)
                      rest == ParseFrom(path_str, j)
                  IN  IF rest.err # "" THEN rest
                      ELSE [err   |-> "",
                            steps |-> <<KeyStep(Slice(path_str, i, j))>> \o rest.steps]

parse_path(path_str) == ParseFrom(path_str, 0)

\* lines 51-61: the walk over steps[k .. n] from cur; at is the place of cur in
\* the document (cur is a reference into it)
RECURSIVE Walk(_, _, _, _, _)
Walk(cur, at, sts, k, n) ==
  IF k > n THEN [err |-> "", cur |-> cur, at |-> at]
  ELSE LET st == sts[k]
       IN  IF st.kind = "key"
             THEN IF IsDict(cur) /\ st.name \in DOMAIN cur.m
                    THEN Walk(cur.m[st.name], Append(at, st), sts, k + 1, n)
                    ELSE [err |-> "InvalidKeyPath", cur |-> cur, at |-> at]
             ELSE IF IsList(cur) /\ 0 <= st.index /\ st.index < Len(cur.l)
                    THEN Walk(cur.l[st.index + 1], Append(at, st), sts, k + 1, n)
                    ELSE [err |-> "InvalidKeyPath", cur |-> cur, at |-> at]

\* lines 49-63; steps[-1] of no steps is an IndexError
navigate_parent(root, sts) ==
  LET w == Walk(root, <<>>, sts, 1, Len(sts) - 1)
  IN  IF w.err # "" THEN [err |-> w.err, cur |-> w.cur, at |-> w.at, last |-> <<>>]
      ELSE IF sts = <<>>
        THEN [err |-> "IndexError", cur |-> w.cur, at |-> w.at, last |-> <<>>]
        ELSE [err |-> "", cur |-> w.cur, at |-> w.at, last |-> sts[Len(sts)]]

\* A set_value that assigns to a key the map does not hold yet.
set_value_upsert(parent, last, new_value) ==
  IF last.kind = "key"
    THEN IF IsDict(parent)
           THEN [err |-> "",
                 parent |-> Map([k \in DOMAIN parent.m \cup {last.name} |->
                                  IF k = last.name THEN new_value ELSE parent.m[k]])]
           ELSE [err |-> "InvalidKeyPath", parent |-> parent]
    ELSE IF IsList(parent) /\ 0 <= last.index /\ last.index < Len(parent.l)
           THEN [err |-> "",
                 parent |-> List([parent.l EXCEPT ![last.index + 1] = new_value])]
           ELSE [err |-> "InvalidKeyPath", parent |-> parent]

\* lines 66-76: the parent after the assignment, or InvalidKeyPath
set_value(parent, last, new_value) ==
  IF last.kind = "key"
    THEN IF IsDict(parent) /\ last.name \in DOMAIN parent.m
           THEN [err |-> "",
                 parent |-> Map([parent.m EXCEPT ![last.name] = new_value])]
           ELSE [err |-> "InvalidKeyPath", parent |-> parent]
    ELSE IF IsList(parent) /\ 0 <= last.index /\ last.index < Len(parent.l)
           THEN [err |-> "",
                 parent |-> List([parent.l EXCEPT ![last.index + 1] = new_value])]
           ELSE [err |-> "InvalidKeyPath", parent |-> parent]

\* the document with the object at place `at` mutated into obj: what an
\* assignment through the reference navigate_parent returned does to data
RECURSIVE Graft(_, _, _)
Graft(root, at, obj) ==
  IF at = <<>> THEN obj
  ELSE LET st == Head(at)
       IN  IF st.kind = "key"
             THEN Map([root.m EXCEPT ![st.name] = Graft(root.m[st.name], Tail(at), obj)])
             ELSE List([root.l EXCEPT ![st.index + 1] =
                          Graft(root.l[st.index + 1], Tail(at), obj)])

\* lines 161-177: the try block, as the diagnostic it ends with ("" when it
\* succeeds), the steps parsed and the document after it
ApplyEdit(root, path_str, replace) ==
  LET p   == parse_path(path_str)
      nav == navigate_parent(root, p.steps)
      sv  == set_value(nav.cur, nav.last, replace.value)
      failed(kind, sts) == [err |-> kind, steps |-> sts, data |-> root]
  IN  IF p.err = "InvalidKeyPath" THEN failed("InvalidKeyPath", <<>>)
      ELSE IF p.err # "" THEN failed("ApplyError", <<>>)
      ELSE IF nav.err = "InvalidKeyPath" THEN failed("InvalidKeyPath", p.steps)
      ELSE IF nav.err # "" THEN failed("ApplyError", p.steps)
      ELSE IF ~replace.valid THEN failed("InvalidValue", p.steps)
      ELSE IF sv.err # "" THEN failed("InvalidKeyPath", p.steps)
      ELSE [err |-> "", steps |-> p.steps, data |-> Graft(root, nav.at, sv.parent)]

----------------------------------------------------------------------------
(* fedit_structured_json.py: the inputs of an invocation with --structured. *)

KeyA == <<"a">>

KeyB == <<"b">>

Leaf == Num(1)

\* the maps with the key a, or a and b, and the lists of one or two values,
\* over the values V
MapsOver(V) == {Map(f) : f \in UNION {[K -> V] : K \in {{KeyA}, {KeyA, KeyB}}}}

ListsOver(V) == {List(<<x>>) : x \in V} \cup {List(<<x, y>>) : x, y \in V}

Shallow == {Leaf} \cup MapsOver({Leaf}) \cup ListsOver({Leaf})

Nested == {Leaf} \cup MapsOver(Shallow) \cup ListsOver(Shallow)

\* documents: a map with the entry a, and b beside it, or a shallow value
Documents ==
  {Map([k \in {KeyA, KeyB} |-> IF k = KeyA THEN x ELSE Leaf]) : x \in Nested}
    \cup Shallow

PathSteps == {KeyStep(KeyA), KeyStep(KeyB), IdxStep(0), IdxStep(1)}

\* the key path string of a sequence of steps: name, .name, [index]
RECURSIVE RenderPath(_, _)
RenderPath(sts, first) ==
  IF sts = <<>> THEN <<>>
  ELSE LET st == Head(sts)
           here == IF st.kind = "key"
                     THEN (IF first THEN <<>> ELSE <<".">>) \o st.name
                     ELSE <<"[", Digits[st.index + 1], "]">>
       IN  here \o RenderPath(Tail(sts), FALSE)

\* key path strings that are no rendering of steps
OddPaths ==
  {<<"a", "[">>, <<"a", "[", "0">>, <<"a", "[", "]">>, <<"a", "[", "a", "]">>,
   <<"a", "[", "-", "1", "]">>, <<"a", "[", " ", "1", "]">>, <<".", "a">>,
   <<"a", ".">>, <<"a", ".", ".", "a">>, <<".">>, <<"a", "]">>,
   <<"a", "[", "1", "]", "b">>}

PathStrings ==
  {RenderPath(sts, TRUE) : sts \in SeqsUpTo(PathSteps, MaxPathSteps)} \cup OddPaths

\* the replacement argument, as what json.loads makes of it: a value, or a
\* JSONDecodeError
ReplaceValues ==
  {[valid |-> TRUE, value |-> List(<<Num(9)>>)], [valid |-> FALSE, value |-> Num(0)]}

JsonArgs(path_str, replace) == [path |-> path_str, replace |-> replace]

JsonInitFile(content, exists) ==
  /\ present = exists
  /\ disk = content
  /\ orig = content
  /\ pc = "jread"
  /\ data = Num(0)
  /\ steps = <<>>
  /\ new_text = EmptyFile
  /\ tmp_exists = FALSE
  /\ tmp_content = EmptyFile
  /\ tmp_created = FALSE
  /\ rc = -1
  /\ err = ""
  /\ reported = -1

PlainIdle ==
  /\ raw = <<>>
  /\ line_ending = NoneStr
  /\ text = <<>>
  /\ matches = <<>>
  /\ start = 0
  /\ final_text = <<>>

JsonInputs ==
  \/ /\ \E ps \in PathStrings, r \in ReplaceValues : args = JsonArgs(ps, r)
     /\ \E d \in Documents : JsonInitFile(JsonFile(d), TRUE)
  \/ /\ \E r \in ReplaceValues : args = JsonArgs(<<"a">>, r)
     /\ \/ JsonInitFile(NotJsonFile, TRUE)
        \/ JsonInitFile(EmptyFile, TRUE)
        \/ JsonInitFile(EmptyFile, FALSE)

JsonInit == JsonInputs /\ PlainIdle /\ YamlIdle /\ IndentIdle /\ ReaderInit

----------------------------------------------------------------------------
(* fedit_structured_json.py: one invocation of main() with --structured.   *)

\* lines 150-159.  Only FileNotFoundError and JSONDecodeError are caught: any
\* other failure of open or read leaves main() as an uncaught exception, on
\* which the interpreter prints the traceback and exits with 1.
JsonRead ==
  /\ pc = "jread"
  /\ \/ /\ ~present
        /\ Return(1, "NoSuchFile", -1)
        /\ UNCHANGED data
     \/ /\ present
        /\ \E kind \in {"ReadError", "EncodingError"} : Return(1, kind, -1)
        /\ UNCHANGED data
     \/ /\ present
        /\ disk.form # "json"
        /\ Return(1, "InvalidJSON", -1)
        /\ UNCHANGED data
     \/ /\ present
        /\ disk.form = "json"
        /\ data' = disk.tree
        /\ pc' = "japply"
        /\ UNCHANGED <<rc, err, reported>>
  /\ UNCHANGED <<args, orig, not_json, io, steps, new_text>>

\* lines 161-177
JsonApply ==
  /\ pc = "japply"
  /\ LET r == ApplyEdit(data, args.path, args.replace)
     IN  /\ steps' = r.steps
         /\ data' = r.data
         /\ \/ /\ r.err # ""
               /\ Return(1, r.err, -1)
            \/ /\ r.err = ""
               /\ pc' = "jdumps"
               /\ UNCHANGED <<rc, err, reported>>
  /\ UNCHANGED <<args, orig, not_json, io, new_text>>

\* lines 179-187: the mutated document serialized
JsonDumps ==
  /\ pc = "jdumps"
  /\ new_text' = JsonFile(data)
  /\ pc' = "jmkstemp"
  /\ UNCHANGED <<args, orig, not_json, io, data, steps, rc, err, reported>>

\* lines 197-204: the handler of a failure of the write phase
JsonWriteFailed ==
  /\ tmp_exists' = RemoveTemp(tmp_exists)
  /\ Return(1, "WriteError", -1)

\* lines 189-190: mkstemp stands before the try block, its failure is uncaught
JsonMkStemp ==
  /\ pc = "jmkstemp"
  /\ \/ /\ tmp_exists' = TRUE
        /\ tmp_content' = EmptyFile
        /\ tmp_created' = TRUE
        /\ pc' = "jwrite"
        /\ UNCHANGED <<rc, err, reported>>
     \/ /\ Return(1, "WriteError", -1)
        /\ UNCHANGED <<tmp_exists, tmp_content, tmp_created>>
  /\ UNCHANGED <<args, orig, not_json, present, disk, json_locals>>

\* lines 192-193
JsonWriteBuffer ==
  /\ pc = "jwrite"
  /\ \/ /\ pc' = "jflush"
        /\ UNCHANGED <<tmp_exists, rc, err, reported>>
     \/ JsonWriteFailed
  /\ UNCHANGED <<args, orig, not_json, present, disk, tmp_content, tmp_created,
                 json_locals>>

\* line 194
JsonFlush ==
  /\ pc = "jflush"
  /\ \/ /\ tmp_content' = new_text
        /\ pc' = "jfsync"
        /\ UNCHANGED <<tmp_exists, rc, err, reported>>
     \/ /\ tmp_content' \in {EmptyFile, PartOf(new_text)}
        /\ JsonWriteFailed
  /\ UNCHANGED <<args, orig, not_json, present, disk, tmp_created, json_locals>>

\* line 195, and the close of the file at the end of the with block
JsonFsync ==
  /\ pc = "jfsync"
  /\ \/ /\ pc' = "jreplace"
        /\ UNCHANGED <<tmp_exists, rc, err, reported>>
     \/ JsonWriteFailed
  /\ UNCHANGED <<args, orig, not_json, present, disk, tmp_content, tmp_created,
                 json_locals>>

\* lines 196-206
JsonReplace ==
  /\ pc = "jreplace"
  /\ \/ /\ disk' = tmp_content
        /\ tmp_exists' = FALSE
        /\ Return(0, "", -1)
     \/ /\ JsonWriteFailed
        /\ UNCHANGED disk
  /\ UNCHANGED <<args, orig, not_json, present, tmp_content, tmp_created,
                 json_locals>>

JsonNext ==
  \/ JsonRead
  \/ JsonApply
  \/ JsonDumps
  \/ JsonMkStemp
  \/ JsonWriteBuffer
  \/ JsonFlush
  \/ JsonFsync
  \/ JsonReplace

SpecJson == JsonInit /\ [][JsonNext]_vars

----------------------------------------------------------------------------
(* Properties of the structured JSON edit command.                         *)

\* the value at a path of steps, if every step resolves
RECURSIVE Lookup(_, _)
Lookup(tree, q) ==
  IF q = <<>> THEN [ok |-> TRUE, v |-> tree]
  ELSE LET st == Head(q)
       IN  IF st.kind = "key" /\ tree.t = "map" /\ st.name \in DOMAIN tree.m
             THEN Lookup(tree.m[st.name], Tail(q))
           ELSE IF st.kind = "idx" /\ tree.t = "list" /\ st.index \in 0..(Len(tree.l) - 1)
             THEN Lookup(tree.l[st.index + 1], Tail(q))
           ELSE [ok |-> FALSE, v |-> tree]

\* every path of steps that resolves in a tree
RECURSIVE PathsOf(_)
PathsOf(tree) ==
  {<<>>} \cup
    IF tree.t = "map"
      THEN UNION {{<<KeyStep(k)>> \o q : q \in PathsOf(tree.m[k])} : k \in DOMAIN tree.m}
    ELSE IF tree.t = "list"
      THEN UNION {{<<IdxStep(i - 1)>> \o q : q \in PathsOf(tree.l[i])} : i \in 1..Len(tree.l)}
    ELSE {}

IsPrefix(p, q) == Len(p) <= Len(q) /\ SubSeq(q, 1, Len(p)) = p

\* new is old with the slot at path sts overwritten by value and nothing else
\* changed: outside the slot the same paths resolve, to the same values, and
\* the containers above the slot keep their kind
OnlySlotChanged(old, new, sts, value) ==
  /\ Lookup(new, sts).ok /\ Lookup(new, sts).v = value
  /\ {q \in PathsOf(new) : ~IsPrefix(sts, q)} = {q \in PathsOf(old) : ~IsPrefix(sts, q)}
  /\ \A q \in PathsOf(old) :
       /\ ~IsPrefix(sts, q) /\ ~IsPrefix(q, sts) => Lookup(new, q).v = Lookup(old, q).v
       /\ IsPrefix(q, sts) /\ q # sts => Lookup(new, q).v.t = Lookup(old, q).v.t

\* the command got as far as the key path, with steps parsed and a replacement
\* that is a JSON value
PathTried ==
  /\ pc \notin {"jread", "japply"}
  /\ steps # <<>>
  /\ args.replace.valid

\* C9: when every step of the key path resolves, the document after the edit
\* differs from the one read in the addressed slot only; when a step does not
\* resolve (a key that is missing, a step into a value of the wrong kind, an
\* index out of range, a path one level too deep), the command fails with
\* InvalidKeyPath and neither the document nor the file changes.
C9_KeyPathMutation ==
  PathTried =>
    IF Lookup(orig.tree, steps).ok
      THEN /\ err \in {"", "WriteError"}
           /\ OnlySlotChanged(orig.tree, data, steps, args.replace.value)
           /\ (Done /\ rc = 0) => disk = JsonFile(data)
      ELSE /\ Done /\ rc = 1 /\ err = "InvalidKeyPath"
           /\ data = orig.tree
           /\ disk = orig /\ ~tmp_created

C9_Witness ==
  /\ Done /\ rc = 0
  /\ steps = <<KeyStep(KeyA), IdxStep(1), KeyStep(KeyA)>>
  /\ Len(orig.tree.m[KeyA].l) = 2
  /\ orig.tree.m[KeyA].l[1].t = "map"
  /\ disk # orig

C9_WitnessTooDeep ==
  /\ Done /\ err = "InvalidKeyPath"
  /\ Len(steps) >= 2
  /\ Lookup(orig.tree, SubSeq(steps, 1, Len(steps) - 1)).ok
  /\ Lookup(orig.tree, SubSeq(steps, 1, Len(steps) - 1)).v.t = "num"

\* the exit code the scheme gives to an outcome
SchemeCode(kind) ==
  IF kind = "" THEN 0
  ELSE IF kind \in {"NoMatch", "AmbiguousMatch", "InvalidKeyPath"} THEN 1
  ELSE IF kind \in {"NoSuchFile", "ReadError"} THEN 2
  ELSE IF kind = "WriteError" THEN 3
  ELSE 4

SchemeKinds ==
  {"", "NoMatch", "AmbiguousMatch", "InvalidKeyPath", "NoSuchFile", "ReadError",
   "WriteError", "EncodingError"}

\* C8: each command exits with 0 on success, 1 on no match, an ambiguous match
\* without --multiple or a key path error, 2 when the file is not found or
\* cannot be read, 3 on a write error, 4 on a decode error.
C8_ExitCodeScheme == (Done /\ err \in SchemeKinds) => rc = SchemeCode(err)

----------------------------------------------------------------------------
(* fedit_structured_yaml_toml.py: strings and lines.                       *)

\* the characters of the class [A-Za-z0-9_-] among the model's
IsKeyChar(c) ==
  \/ IsDigit(c)
  \/ c \in {"a", "b", "c", "k", "n", "v", "w", "x", "_", "-"}

RECURSIVE KeyRunEnd(_, _)
KeyRunEnd(s, j) ==
  IF j < Len(s) /\ IsKeyChar(s[j + 1]) THEN KeyRunEnd(s, j + 1) ELSE j

\* the end of the run of characters other than the newline: (.*) from offset j
RECURSIVE DotRunEnd(_, _)
DotRunEnd(s, j) == IF j < Len(s) /\ s[j + 1] # LF THEN DotRunEnd(s, j + 1) ELSE j

\* $ without re.MULTILINE: the end of the string, or just before a newline
\* that ends it
AtDollar(s, j) == j = Len(s) \/ (j = Len(s) - 1 /\ s[Len(s)] = LF)

Max(S) == CHOOSE x \in S : \A y \in S : x >= y

\* \s*(.*)$ from offset i: \s* takes the longest run of whitespace that lets
\* (.*)$ match; the group is what (.*) took
RestAfter(s, i) ==
  LET starts == {q \in i..RunEnd(s, i) : AtDollar(s, DotRunEnd(s, q))}
  IN  IF starts = {} THEN [ok |-> FALSE, rest |-> <<>>]
      ELSE [ok |-> TRUE, rest |-> Slice(s, Max(starts), DotRunEnd(s, Max(starts)))]

\* ^(\s*)([A-Za-z0-9_-]+)\s*<sep>\s*(.*)$ on a line: the three groups.  The
\* name is a run of characters none of which is whitespace or the separator,
\* so the groups before the separator are the longest runs.
KeyLine(line, sep) ==
  LET i1 == RunEnd(line, 0)
      i2 == KeyRunEnd(line, i1)
      i3 == RunEnd(line, i2)
      tail == RestAfter(line, i3 + 1)
      none == [ok |-> FALSE, lead |-> <<>>, key |-> <<>>, rest |-> <<>>]
  IN  IF i2 = i1 THEN none
      ELSE IF ~(i3 < Len(line) /\ line[i3 + 1] = sep) THEN none
      ELSE IF ~tail.ok THEN none
      ELSE [ok |-> TRUE, lead |-> Slice(line, 0, i1), key |-> Slice(line, i1, i2),
            rest |-> tail.rest]

\* str.partition("#"): the text after the first #, empty when there is none
CommentOf(rest) ==
  LET i == Find(rest, <<"#">>, 0)
  IN  IF i = -1 THEN <<>> ELSE SliceFrom(rest, i + 1)

\* lines 51-54 and 86-93: the new line, always ended by a newline
NewLine(lead, key, eq, replacement, rest) ==
  lead \o key \o eq \o replacement
    \o (IF CommentOf(rest) # <<>> THEN <<" ", "#">> \o CommentOf(rest) ELSE <<>>)
    \o <<LF>>

\* ' ' * indent
Spaces(n) == [i \in 1..n |-> " "]

\* str.split("."): the pieces between the dots
RECURSIVE SplitDots(_)
SplitDots(str) ==
  LET i == Find(str, <<".">>, 0)
  IN  IF i = -1 THEN <<str>>
      ELSE <<Slice(str, 0, i)>> \o SplitDots(SliceFrom(str, i + 1))

\* str.splitlines(True) on a text whose line boundaries are newlines
RECURSIVE SplitLines(_)
SplitLines(content) ==
  LET i == Find(content, <<LF>>, 0)
  IN  IF content = <<>> THEN <<>>
      ELSE IF i = -1 THEN <<content>>
      ELSE <<Slice(content, 0, i + 1)>> \o SplitLines(SliceFrom(content, i + 1))

\* Path.read_text: decoding, then the universal newlines of a text-mode read
UniversalNewlines(str) ==
  StrReplace(StrReplace(str, <<CR, LF>>, <<LF>>), <<CR>>, <<LF>>)

\* lines 43-44: the stack pruned to the entries indented less than indent
RECURSIVE Prune(_, _)
Prune(stack, indent) ==
  IF stack # <<>> /\ stack[Len(stack)].indent >= indent
    THEN Prune(SubSeq(stack, 1, Len(stack) - 1), indent)
    ELSE stack

\* lines 36-57: the scan from line idx on (1-based here), with the stack so far
RECURSIVE YamlScan(_, _, _, _, _)
YamlScan(ls, idx, stack, path_tokens, replacement) ==
  IF idx > Len(ls) THEN [updated |-> FALSE, lines |-> ls]
  ELSE LET m == KeyLine(ls[idx], ":")
           indent == Len(m.lead)
           stack2 == Append(Prune(stack, indent), [key |-> m.key, indent |-> indent])
           current_path == [i \in 1..Len(stack2) |-> stack2[i].key]
       IN  IF ~m.ok THEN YamlScan(ls, idx + 1, stack, path_tokens, replacement)
           ELSE IF current_path = path_tokens /\ m.rest # <<>>
             THEN [updated |-> TRUE,
                   lines |-> [ls EXCEPT ![idx] =
                                NewLine(Spaces(indent), m.key, <<":", " ">>,
                                        replacement, m.rest)]]
             ELSE YamlScan(ls, idx + 1, stack2, path_tokens, replacement)

\* lines 33-67: updated is FALSE where the function raises ValueError
replace_yaml_path(ls, path_tokens, replacement) ==
  YamlScan(ls, 1, <<>>, path_tokens, replacement)

\* ^\s*\[([^\]]+)\]\s*$ on a line: the group
TableLine(line) ==
  LET i1 == RunEnd(line, 0)
      i2 == Find(line, <<"]">>, i1 + 1)
      none == [ok |-> FALSE, name |-> <<>>]
  IN  IF ~(i1 < Len(line) /\ line[i1 + 1] = "[") THEN none
      ELSE IF i2 = -1 \/ i2 = i1 + 1 THEN none
      ELSE IF ~(RunEnd(line, i2 + 1) = Len(line)) THEN none
      ELSE [ok |-> TRUE, name |-> Slice(line, i1 + 1, i2)]

\* lines 73-95
RECURSIVE TomlScan(_, _, _, _, _)
TomlScan(ls, idx, current_table, path_tokens, replacement) ==
  IF idx > Len(ls) THEN [updated |-> FALSE, lines |-> ls]
  ELSE LET tbl == TableLine(ls[idx])
           table_path == Strip(tbl.name)
           m == KeyLine(ls[idx], "=")
       IN  IF tbl.ok
             THEN TomlScan(ls, idx + 1,
                           IF table_path # <<>> THEN SplitDots(table_path) ELSE <<>>,
                           path_tokens, replacement)
           ELSE IF m.ok /\ Append(current_table, m.key) = path_tokens
             THEN [updated |-> TRUE,
                   lines |-> [ls EXCEPT ![idx] =
                                NewLine(m.lead, m.key, <<" ", "=", " ">>,
                                        replacement, m.rest)]]
           ELSE TomlScan(ls, idx + 1, current_table, path_tokens, replacement)

\* lines 70-102: updated is FALSE where the function raises ValueError
replace_toml_path(ls, path_tokens, replacement) ==
  TomlScan(ls, 1, <<>>, path_tokens, replacement)

----------------------------------------------------------------------------
(* fedit_structured_yaml_toml.py: one invocation of main(), and a reader.  *)

\* str.lower() on the names of formats
Lower(name) == IF name = "TOML" THEN "toml" ELSE name

\* lines 22-30
detect_format(args_format, suffix) ==
  IF args_format # "" THEN Lower(args_format)
  ELSE IF Lower(suffix) \in {".yml", ".yaml"} THEN "yaml"
  ELSE IF Lower(suffix) = ".toml" THEN "toml"
  ELSE "yaml"

\* line 127
PathTokens(path) == IF path # <<>> THEN SplitDots(path) ELSE <<>>

\* the lines the files are made of
YamlLineForms ==
  { <<"a", ":", LF>>,
    <<"a", ":", " ", "v", LF>>,
    <<" ", " ", "b", ":", " ", "v", " ", "#", " ", "c", LF>>,
    <<TAB, "b", ":", " ", "v", CR, LF>>,
    <<"b", ":", " ", "v">>,
    <<"[", "a", "]", LF>>,
    <<"b", " ", "=", " ", "v", LF>>,
    <<" ", "b", "=", "v", " ", "#", "c", LF>> }

YamlTexts == {Concat(ls) : ls \in SeqsUpTo(YamlLineForms, MaxYamlLines)}

YamlPaths == {<<>>, <<"a">>, <<"b">>, <<"a", ".", "b">>}

YamlReplacements == {<<"w">>, <<>>}

\* the --format flag and the suffix of the file name
YamlFormats ==
  { [fmt |-> "", suffix |-> ".yml"], [fmt |-> "", suffix |-> ".toml"],
    [fmt |-> "", suffix |-> ".txt"], [fmt |-> "TOML", suffix |-> ".yml"],
    [fmt |-> "ini", suffix |-> ".yml"] }

YamlArgs(path, replacement, f) ==
  [path |-> path, replacement |-> replacement, fmt |-> f.fmt, suffix |-> f.suffix]

YamlInitFile(content, exists) ==
  /\ present = exists
  /\ disk = content
  /\ orig = content
  /\ pc = "ystart"
  /\ lines = <<>>
  /\ rc = -1
  /\ err = ""
  /\ reported = -1

TempIdle ==
  /\ tmp_exists = FALSE
  /\ tmp_content = <<>>
  /\ tmp_created = FALSE

YamlInputs ==
  \/ /\ \E p \in YamlPaths, r \in YamlReplacements, f \in YamlFormats :
          args = YamlArgs(p, r, f)
     /\ \E t \in YamlTexts : YamlInitFile(t, TRUE)
  \/ /\ \E f \in YamlFormats : args = YamlArgs(<<"a">>, <<"w">>, f)
     /\ \/ \E t \in BadTexts : YamlInitFile(t, TRUE)
        \/ YamlInitFile(<<>>, FALSE)

YamlInit == YamlInputs /\ PlainIdle /\ JsonIdle /\ TempIdle /\ IndentIdle /\ ReaderInit

\* lines 121-130
YamlStart ==
  /\ pc = "ystart"
  /\ IF ~present THEN Return(2, "NoSuchFile", -1)
     ELSE IF PathTokens(args.path) = <<>> THEN Return(2, "EmptyPath", -1)
     ELSE /\ pc' = "yread"
          /\ UNCHANGED <<rc, err, reported>>
  /\ UNCHANGED <<args, orig, not_yaml, present, disk, lines>>

\* lines 132-133.  No failure of read_text is caught: main() is left by an
\* uncaught exception, on which the interpreter prints the traceback and exits
\* with 1.
YamlRead ==
  /\ pc = "yread"
  /\ \/ /\ Return(1, "ReadError", -1)
        /\ UNCHANGED lines
     \/ /\ ~Decodable(disk)
        /\ Return(1, "EncodingError", -1)
        /\ UNCHANGED lines
     \/ /\ Decodable(disk)
        /\ lines' = SplitLines(UniversalNewlines(Decode(disk)))
        /\ pc' = "yedit"
        /\ UNCHANGED <<rc, err, reported>>
  /\ UNCHANGED <<args, orig, not_yaml, present, disk>>

\* lines 134-144
YamlEdit ==
  /\ pc = "yedit"
  /\ LET fmt == detect_format(args.fmt, args.suffix)
         path_tokens == PathTokens(args.path)
         r == IF fmt = "yaml"
                THEN replace_yaml_path(lines, path_tokens, args.replacement)
                ELSE replace_toml_path(lines, path_tokens, args.replacement)
     IN  IF fmt \notin {"yaml", "toml"}
           THEN /\ Return(2, "UnsupportedFormat", -1)
                /\ UNCHANGED lines
         ELSE IF ~r.updated
           THEN /\ Return(1, "PathNotFound", -1)
                /\ UNCHANGED lines
         ELSE /\ lines' = r.lines
              /\ pc' = "yopen"
              /\ UNCHANGED <<rc, err, reported>>
  /\ UNCHANGED <<args, orig, not_yaml, present, disk>>

\* line 146, Path.write_text: the target itself is opened for writing, which
\* truncates it; a failure is uncaught
YamlOpen ==
  /\ pc = "yopen"
  /\ \/ /\ disk' = <<>>
        /\ pc' = "ywrite"
        /\ UNCHANGED <<rc, err, reported>>
     \/ /\ Return(1, "WriteError", -1)
        /\ UNCHANGED disk
  /\ UNCHANGED <<args, orig, not_yaml, present, lines>>

\* lines 146-147, Path.write_text: the joined lines are written to the target
\* and the file is closed: whole or, on a failure, in part
YamlWrite ==
  /\ pc = "ywrite"
  /\ \/ /\ disk' = Concat(lines)
        /\ Return(0, "", -1)
     \/ /\ \E n \in 0..(Len(Concat(lines)) - 1) : disk' = Slice(Concat(lines), 0, n)
        /\ Return(1, "WriteError", -1)
  /\ UNCHANGED <<args, orig, not_yaml, present, lines>>

YamlNext ==
  \/ YamlStart
  \/ YamlRead
  \/ YamlEdit
  \/ YamlOpen
  \/ YamlWrite

\* another process reads the whole target file
ReaderRead ==
  /\ present
  /\ observed' = disk
  /\ UNCHANGED <<args, orig, io, pc, rc, err, reported, locals, json_locals, lines,
                 original_text, json_indent>>

\* the commands, each beside a reader of its target
SpecYaml == YamlInit /\ [][YamlNext \/ ReaderRead]_vars

SpecReader == Init /\ [][Next \/ ReaderRead]_vars

SpecJsonReader == JsonInit /\ [][JsonNext \/ ReaderRead]_vars

----------------------------------------------------------------------------
(* Properties of persistence beside a concurrent reader.                   *)

\* the new content of the invocation, once it is computed
YamlComputed == pc \in {"yopen", "ywrite"} \/ (pc = "done" /\ err \in {"", "WriteError"})

PlainComputed ==
  pc \in {"mkstemp", "write", "flush", "fsync", "replace"}
    \/ (pc = "done" /\ err \in {"", "WriteError"} /\ ~args.dry_run)

JsonComputed ==
  pc \in {"jmkstemp", "jwrite", "jflush", "jfsync", "jreplace"}
    \/ (pc = "done" /\ err \in {"", "WriteError"})

\* C5, for the line-oriented YAML/TOML command: what a concurrent reader
\* observes in the target is the content before the invocation or the whole
\* new content the invocation computed, never an empty or partly written file
C5_ReaderSeesWholeContent ==
  \/ observed = orig
  \/ YamlComputed /\ observed = Concat(lines)

\* the same for the plain-text command
ReaderSeesWholeText ==
  \/ observed = orig
  \/ PlainComputed /\ observed = final_text

\* the same for the structured JSON command
ReaderSeesWholeDocument ==
  \/ observed = orig
  \/ JsonComputed /\ observed = new_text

\* the reader read the target after it was truncated and before it was written
ReaderSawTruncated == pc = "ywrite" /\ orig # <<>> /\ observed = <<>>

----------------------------------------------------------------------------
(* Properties of parse_path.                                               *)

\* the key path string was handed to parse_path
PathParsed ==
  /\ pc \notin {"jread", "japply"}
  /\ err \notin {"NoSuchFile", "ReadError", "EncodingError", "InvalidJSON"}

\* a [ with no ] after it
UnclosedBracket(path_str) ==
  \E i \in 1..Len(path_str) :
    path_str[i] = "[" /\ Find(path_str, <<"]">>, i) = -1

\* a [ whose content up to the next ] is empty or no integer
BadBracketContent(path_str) ==
  \E i \in 1..Len(path_str) :
    /\ path_str[i] = "["
    /\ Find(path_str, <<"]">>, i) # -1
    /\ ~IntOf(Slice(path_str, i, Find(path_str, <<"]">>, i))).ok

\* the empty path, a dot at either end, or two dots in a row
EmptyToken(path_str) ==
  \/ path_str = <<>>
  \/ Head(path_str) = "."
  \/ path_str[Len(path_str)] = "."
  \/ Find(path_str, <<".", ".">>, 0) # -1

Malformed(path_str) ==
  UnclosedBracket(path_str) \/ BadBracketContent(path_str) \/ EmptyToken(path_str)

\* the key path strings written name, name.name, name[index], [index], ...
Renderings == SeqsUpTo(PathSteps, MaxPathSteps) \ {<<>>}

\* C11: parse_path fails with InvalidKeyPath on a key path string with an
\* unclosed bracket, with empty or non-integer bracket content, or with an
\* empty token (a leading, trailing or doubled dot, the empty path); of a
\* string written as keys and indexes it returns these steps in order.
C11_ParsePathRejectsMalformed ==
  PathParsed =>
    /\ Malformed(args.path) => (Done /\ rc = 1 /\ err = "InvalidKeyPath")
    /\ \A sts \in Renderings : RenderPath(sts, TRUE) = args.path => steps = sts

\* what parse_path does do: the steps of the renderings, InvalidKeyPath on an
\* unclosed bracket
ParsePathOnRenderings ==
  PathParsed =>
    /\ UnclosedBracket(args.path) => (Done /\ rc = 1 /\ err = "InvalidKeyPath")
    /\ \A sts \in Renderings : RenderPath(sts, TRUE) = args.path => steps = sts

----------------------------------------------------------------------------
(* fedit_structured_json.py: the indentation of the new document.          *)

\* str.splitlines(): the lines without their ends
LinesOf(str) ==
  LET ls == SplitLines(str)
  IN  [i \in 1..Len(ls) |->
         IF ls[i][Len(ls[i])] = LF THEN SubSeq(ls[i], 1, Len(ls[i]) - 1) ELSE ls[i]]

\* the end of the run of the character c from offset j on
RECURSIVE CharRunEnd(_, _, _)
CharRunEnd(s, c, j) ==
  IF j < Len(s) /\ s[j + 1] = c THEN CharRunEnd(s, c, j + 1) ELSE j

\* line 83, ^( +|\t+): the length of the group, 0 when there is no match
IndentMatch(line) ==
  IF line # <<>> /\ line[1] \in {" ", TAB} THEN CharRunEnd(line, line[1], 0) ELSE 0

\* lines 80-87: the loop from line k on
RECURSIVE IndentScan(_, _)
IndentScan(ls, k) ==
  IF k > Len(ls) THEN 2
  ELSE IF Strip(ls[k]) = <<>> THEN IndentScan(ls, k + 1)
  ELSE IF IndentMatch(ls[k]) > 0 THEN IndentMatch(ls[k])
  ELSE 2

\* lines 79-87
detect_indent(str) == IndentScan(LinesOf(str), 1)

\* the lines the text of a document is made of
IndentLineForms ==
  { <<"{">>, <<"}">>, <<>>, <<" ">>,
    <<" ", " ", "a">>, <<" ", " ", " ", " ", "a">>, <<TAB, "a">> }

IndentTexts ==
  {Concat([i \in 1..Len(ls) |-> ls[i] \o <<LF>>]) :
     ls \in SeqsUpTo(IndentLineForms, MaxIndentLines)}

\* lines 151-152 done: the text of the document is read
IndentInit ==
  /\ \E t \in IndentTexts : original_text = t
  /\ json_indent = -1
  /\ pc = "jindent"
  /\ args = JsonArgs(KeyA, [valid |-> TRUE, value |-> Leaf])
  /\ present = TRUE
  /\ disk = EmptyFile
  /\ orig = EmptyFile
  /\ rc = -1
  /\ err = ""
  /\ reported = -1
  /\ PlainIdle /\ JsonIdle /\ YamlIdle /\ TempIdle /\ ReaderInit

\* lines 179-183: the indent json.dumps is called with
DetectIndent ==
  /\ pc = "jindent"
  /\ json_indent' = detect_indent(original_text)
  /\ pc' = "jdumps"
  /\ UNCHANGED <<args, orig, io, rc, err, reported, locals, json_locals, lines,
                 observed, original_text>>

SpecIndent == IndentInit /\ [][DetectIndent]_vars

----------------------------------------------------------------------------
(* Properties of the indentation of the new document.                      *)

\* the lines that are indented: not blank, and starting with a blank or a tab
IsIndented(line) == Strip(line) # <<>> /\ isspace(line[1])

\* the first indented line of a text, 0 if there is none
FirstIndented(str) ==
  LET ls == LinesOf(str)
      S == {k \in 1..Len(ls) : IsIndented(ls[k])}
  IN  IF S = {} THEN 0 ELSE CHOOSE k \in S : \A j \in S : k <= j

\* C12: the indent the new document is serialized with is the width of the
\* leading whitespace of the first indented line of the original text, lines
\* that are not indented being passed over, and 2 when no line is indented.
C12_IndentOfFirstIndentedLine ==
  pc = "jdumps" =>
    json_indent = IF FirstIndented(original_text) = 0 THEN 2
             ELSE RunEnd(LinesOf(original_text)[FirstIndented(original_text)], 0)

\* what detect_indent does do: the text's first line that is not blank
\* decides, and an unindented one gives 2
IndentOfFirstNonBlankLine ==
  pc = "jdumps" =>
    LET ls == LinesOf(original_text)
        S == {k \in 1..Len(ls) : Strip(ls[k]) # <<>>}
        first == CHOOSE k \in S : \A j \in S : k <= j
    IN  json_indent = IF S = {} \/ ~IsIndented(ls[first]) THEN 2 ELSE RunEnd(ls[first], 0)

----------------------------------------------------------------------------
(* Properties of the line-oriented YAML/TOML edit.                         *)

\* the edit was tried on the lines read: it replaced a line or found none
YamlEdited ==
  \/ pc \in {"yopen", "ywrite"}
  \/ Done /\ err \in {"", "WriteError", "PathNotFound"}

\* the lines of the file as they are on disk, and as the command reads them
DiskLines == SplitLines(Decode(orig))

ReadLines == SplitLines(UniversalNewlines(Decode(orig)))

\* the line terminator of a line
Terminator(line) ==
  IF Len(line) >= 2 /\ SubSeq(line, Len(line) - 1, Len(line)) = <<CR, LF>> THEN <<CR, LF>>
  ELSE IF line # <<>> /\ line[Len(line)] \in {CR, LF} THEN <<line[Len(line)]>>
  ELSE <<>>

\* YAML: the stack of the keys of lines 1..k, by indentation
RECURSIVE StackAt(_, _)
StackAt(ls, k) ==
  IF k = 0 THEN <<>>
  ELSE LET m == KeyLine(ls[k], ":")
       IN  IF ~m.ok THEN StackAt(ls, k - 1)
           ELSE Append(Prune(StackAt(ls, k - 1), Len(m.lead)),
                       [key |-> m.key, indent |-> Len(m.lead)])

\* TOML: the table of the most recent header among lines 1..k
RECURSIVE TableAt(_, _)
TableAt(ls, k) ==
  IF k = 0 THEN <<>>
  ELSE IF TableLine(ls[k]).ok
    THEN (IF Strip(TableLine(ls[k]).name) = <<>> THEN <<>>
          ELSE SplitDots(Strip(TableLine(ls[k]).name)))
  ELSE TableAt(ls, k - 1)

\* the separator of key and value in the format
SepOf(fmt) == IF fmt = "yaml" THEN ":" ELSE "="

\* whether the path-stack of line k is the requested path
PathIsAt(ls, k, fmt, path_tokens) ==
  IF fmt = "yaml"
    THEN /\ KeyLine(ls[k], ":").ok
         /\ [i \in 1..Len(StackAt(ls, k)) |-> StackAt(ls, k)[i].key] = path_tokens
    ELSE /\ ~TableLine(ls[k]).ok
         /\ KeyLine(ls[k], "=").ok
         /\ Append(TableAt(ls, k), KeyLine(ls[k], "=").key) = path_tokens

\* the first line whose path-stack is the requested path, 0 if there is none
FirstMatch(ls, fmt, path_tokens) ==
  LET S == {k \in 1..Len(ls) : PathIsAt(ls, k, fmt, path_tokens)}
  IN  IF S = {} THEN 0 ELSE CHOOSE k \in S : \A j \in S : k <= j

\* the value of a line: what stands between the separator and the comment
ValueOf(line, sep) == Strip(Slice(KeyLine(line, sep).rest, 0,
                                  IF Find(KeyLine(line, sep).rest, <<"#">>, 0) = -1
                                    THEN Len(KeyLine(line, sep).rest)
                                    ELSE Find(KeyLine(line, sep).rest, <<"#">>, 0)))

\* new is old with the value replaced and indentation, key, inline comment
\* and line terminator kept
OnlyValueChanged(old, new, sep, replacement) ==
  /\ KeyLine(new, sep).ok
  /\ KeyLine(new, sep).lead = KeyLine(old, sep).lead
  /\ KeyLine(new, sep).key = KeyLine(old, sep).key
  /\ ValueOf(new, sep) = replacement
  /\ Strip(CommentOf(KeyLine(new, sep).rest)) = Strip(CommentOf(KeyLine(old, sep).rest))
  /\ Terminator(new) = Terminator(old)

YamlFmt == detect_format(args.fmt, args.suffix)

\* C13: the line modified is the first line whose path-stack equals the
\* requested path; its value changes while its indentation, key, inline
\* comment and line terminator are kept; every other line is unchanged; when
\* no line's path-stack equals the path the edit fails and the file is not
\* written.
C13_FirstMatchingLineEdited ==
  YamlEdited =>
    LET k == FirstMatch(ReadLines, YamlFmt, PathTokens(args.path))
    IN  IF k = 0
          THEN Done /\ rc # 0 /\ disk = orig
          ELSE /\ err # "PathNotFound"
               /\ Len(lines) = Len(DiskLines)
               /\ \A j \in 1..Len(lines) : j # k => lines[j] = DiskLines[j]
               /\ OnlyValueChanged(DiskLines[k], lines[k], SepOf(YamlFmt), args.replacement)
               /\ (Done /\ rc = 0) => disk = Concat(lines)

\* what the edit does do.  The line modified is the first line whose
\* path-stack equals the requested path and, in YAML, whose value is not
\* empty; it is written anew with its key, the replacement and its comment,
\* the indentation in blanks (YAML) or as it was (TOML), and a newline at its
\* end; the other lines are as they were read, with their ends as newlines;
\* when there is no such line the edit fails and the file is not written.
LineEdited ==
  YamlEdited =>
    LET S == {k \in 1..Len(ReadLines) :
                /\ PathIsAt(ReadLines, k, YamlFmt, PathTokens(args.path))
                /\ YamlFmt = "yaml" => KeyLine(ReadLines[k], ":").rest # <<>>}
        k == CHOOSE x \in S : \A j \in S : x <= j
        m == KeyLine(ReadLines[k], SepOf(YamlFmt))
    IN  IF S = {}
          THEN Done /\ rc = 1 /\ err = "PathNotFound" /\ disk = orig
          ELSE /\ err # "PathNotFound"
               /\ Len(lines) = Len(ReadLines)
               /\ \A j \in 1..Len(lines) : j # k => lines[j] = ReadLines[j]
               /\ KeyLine(lines[k], SepOf(YamlFmt)).key = m.key
               /\ Len(KeyLine(lines[k], SepOf(YamlFmt)).lead) = Len(m.lead)
               /\ ValueOf(lines[k], SepOf(YamlFmt)) = Strip(args.replacement)
               /\ CommentOf(KeyLine(lines[k], SepOf(YamlFmt)).rest) = CommentOf(m.rest)
               /\ Terminator(lines[k]) = <<LF>>
               /\ (Done /\ rc = 0) => disk = Concat(lines)

----------------------------------------------------------------------------
(* Properties of the match-location phase.                                 *)

\* an iteration of the exact scan that found an occurrence
ScanFound == pc = "scan" /\ pc' = "scan"

\* C14: the match-location phase terminates for every text and every search
\* string, the empty one included: every iteration of the exact scan that
\* finds an occurrence moves the cursor strictly forward.
C14_ScanCursorAdvances == [][ScanFound => start' > start]_vars

\* what holds: the cursor moves forward when the search string is not empty,
\* and then the scan ends within the length of the text
ScanAdvancesOnNonEmptySearch ==
  [][(ScanFound /\ args.search # <<>>) => (start' > start /\ start' <= Len(text))]_vars

\* the scan on the empty search string: the cursor stands still while the
\* spans pile up
ScanStuck ==
  pc = "scan" /\ args.search = <<>> /\ start = 0 /\ Len(matches) > Len(text) + 1

=============================================================================
